---- MODULE Spec2Model ----
(***************************************************************************)
(* A model of the wiimote transport layer (cesmec/wiimote-rs, C++ part).   *)
(*                                                                         *)
(* Two state machines share this module:                                   *)
(*   Spec    the process-wide registry queue `wiimotes` with the           *)
(*           operations wiimotes_scan, wiimotes_get_next, wiimote_cleanup  *)
(*           and wiimotes_scan_cleanup, for both backends;                 *)
(*   IoSpec  one claimed Transport and its read / read_timeout / write     *)
(*           calls: WiimoteLinux (socket backend) and WiimoteWindows       *)
(*           (overlapped-handle backend).                                  *)
(***************************************************************************)
EXTENDS Integers, Sequences, FiniteSets, TLC

(***************************************************************************)
(* Bounds of the model.                                                    *)
(***************************************************************************)
\* Transports ever constructed during one behaviour of the registry.
MaxTransports == 3
\* Candidate devices one enumeration reports.
MaxCandidates == 2
\* Bluetooth devices registered as HID devices (connected_wiimotes).
MaxRegistered == 1
\* Input reports the device sends during one behaviour of a Transport.
MaxReports == 2
\* capabilities.InputReportByteLength of the connected device.
InputReportLen == 2
\* capabilities.OutputReportByteLength of the connected device.
OutputReportLen == 2
\* wiimote_write calls made during one behaviour of a Transport.
MaxWrites == 2
\* Length of the longest identifier of a Transport.
MaxIdLen == 3
\* Calls of wiimotes_get_next from the threads that reach the queue's front.
MaxCalls == 3

(***************************************************************************)
(* Program constants.                                                      *)
(***************************************************************************)
NULL == 0
WIIMOTE_VENDOR_ID == 1406
WIIMOTE_PRODUCT_ID == 774
WIIMOTE_PLUS_PRODUCT_ID == 816
\* The value of a byte of the caller's buffer that no call has written.
UNWRITTEN == 255
DEFAULT_BUFFER_SIZE == 32
INPUT_PREFIX == 161
OUTPUT_PREFIX == 162

VARIABLES
    \* ---- registry (wiimote_scan_linux.cpp / wiimote_scan_win.cpp) ----
    backend,            \* "socket" or "handle": the backend the build selected
    wiimotes,           \* std::queue<Wiimote*>: sequence of object ids
    heap,               \* heap[p]: the Wiimote object with id p
    held,               \* pointers the caller received and has not cleaned up
    connected_wiimotes, \* handle backend: number of registered bluetooth devices
    pc,                 \* "idle", or "cleanup" inside wiimotes_scan_cleanup
    op,                 \* the API call that returned last
    ret,                \* its return value
    enqueued,           \* history: every pointer pushed, in push order
    returned,           \* history: every non-null wiimotes_get_next result
    found,              \* history: Transports pushed by the call that returned
                        \* last (0 unless it was a scan)
    snapshot,           \* history: the registry when the wiimotes_scan_cleanup
                        \* call in progress, or just returned, began
    violation,          \* history: the registry touched an object it did not own
    threads,            \* threads[t]: where thread t is inside wiimotes_get_next,
                        \* its local `wiimote`, and whether a call of t ran
                        \* while another thread was inside the function
    \* ---- one claimed Transport, handle backend (wiimote_win.cpp) ----
    m_read_pending,     \* WiimoteWindows::m_read_pending
    m_read_buffer,      \* WiimoteWindows::m_read_buffer, the scratch buffer
    read_event,         \* m_overlapped_read.hEvent is signalled
    reads_in_flight,    \* OS: asynchronous reads started and not yet completed
    read_completion,    \* OS: the completion of a read, not yet fetched
    next_report,        \* device: number of the next input report it sends
    completed,          \* history: reports completed into the scratch buffer
    delivered,          \* history: reports a call returned to the caller
    m_write_pending,    \* WiimoteWindows::m_write_pending
    m_write_buffer,     \* WiimoteWindows::m_write_buffer, the scratch buffer
    write_event,        \* m_overlapped_write.hEvent is signalled
    writes_in_flight,   \* OS: asynchronous writes started and not yet completed
    write_completion,   \* OS: the completion status in m_overlapped_write
    submitted,          \* history: the reports handed to WriteFile, each with
                        \* the data_size of its call
    blocked,            \* the caller's thread waits for an event nothing signals
    \* ---- the caller's side of the last read / write call ----
    buffer,             \* the caller's buffer after the call
    overrun,            \* a call wrote past the end of the caller's buffer
    call,               \* history: what the last call did
    prev,               \* history: what the call before it did
    \* ---- one claimed Transport, socket backend (wiimote_linux.cpp) ----
    wire,               \* the last frame written to the data socket
    aborted             \* an assertion failed: the process was terminated

regVars == <<threads, backend, wiimotes, heap, held, connected_wiimotes, pc, op, ret,
             enqueued, returned, found, snapshot, violation>>

readVars == <<m_read_pending, m_read_buffer, read_event, reads_in_flight,
              read_completion, next_report, completed, delivered>>

writeVars == <<m_write_pending, m_write_buffer, write_event, writes_in_flight,
               write_completion, submitted, blocked>>

callVars == <<buffer, overrun, call, prev>>

socketVars == <<wire, aborted>>

ioVars == <<readVars, writeVars, callVars, socketVars>>

vars == <<regVars, ioVars>>

(***************************************************************************)
(* Device identity filter (wiimote_shared.h).                              *)
(***************************************************************************)
is_wiimote_device_name(name) ==
    name = "Nintendo RVL-CNT-01" \/ name = "Nintendo RVL-CNT-01-TR"

\* Mutant: the vendor id is not looked at.
is_wiimote_any_vendor(vendor_id, product_id) ==
    product_id = WIIMOTE_PRODUCT_ID \/ product_id = WIIMOTE_PLUS_PRODUCT_ID

is_wiimote(vendor_id, product_id) ==
    /\ vendor_id = WIIMOTE_VENDOR_ID
    /\ (product_id = WIIMOTE_PRODUCT_ID \/ product_id = WIIMOTE_PLUS_PRODUCT_ID)

(***************************************************************************)
(* Inputs of a scan: what the platform's device lister reports, and how    *)
(* the connection steps of each candidate end.                             *)
(***************************************************************************)
Backends == {"socket", "handle"}

\* Bluetooth addresses / serial numbers of the devices in range: "A" is a
\* Wii Remote (RVL-CNT-01, product id 0x0306), "B" a Wii Remote Plus
\* (RVL-CNT-01-TR, product id 0x0330).
Identifiers == {"A", "B"}

\* Names hci_read_remote_name can report.
Names == {"Nintendo RVL-CNT-01", "Nintendo RVL-CNT-01-TR", "nintendo rvl-cnt-01"}

\* Vendor and product ids HidD_GetAttributes can report.
Vendors == {WIIMOTE_VENDOR_ID, WIIMOTE_VENDOR_ID + 1}
Products == {WIIMOTE_PRODUCT_ID, WIIMOTE_PLUS_PRODUCT_ID, WIIMOTE_PRODUCT_ID - 5}

\* One entry of the inquiry result (socket backend): whether the name lookup
\* succeeds, the name, whether the control and the data channel connect, and
\* the address. Fields the code never reads for a candidate are fixed.
SocketCandidates ==
    { c \in [name_read : BOOLEAN, name : Names, control : BOOLEAN,
             data : BOOLEAN, id : Identifiers] :
        LET accepted == c.name_read /\ is_wiimote_device_name(c.name)
        IN  /\ (~c.name_read => c.name = "Nintendo RVL-CNT-01")
            /\ (~accepted => c.control)
            /\ (~(accepted /\ c.control) => c.data)
            /\ (~(accepted /\ c.control /\ c.data) => c.id = "A")
            /\ (c.name = "Nintendo RVL-CNT-01-TR" => c.id = "B")
            /\ (c.id = "B" => c.name = "Nintendo RVL-CNT-01-TR") }

\* One entry of the HID interface list (handle backend): whether
\* get_device_info succeeds, the ids it reports, whether the device opens for
\* reading and writing, and the serial number. Fields the code never reads
\* for a candidate are fixed.
HandleCandidates ==
    { c \in [info : BOOLEAN, vendor_id : Vendors, product_id : Products,
             open : BOOLEAN, id : Identifiers] :
        LET accepted == c.info /\ is_wiimote(c.vendor_id, c.product_id)
        IN  /\ (~c.info => c.vendor_id = WIIMOTE_VENDOR_ID
                           /\ c.product_id = WIIMOTE_PRODUCT_ID)
            /\ (~accepted => c.open)
            /\ (~(accepted /\ c.open) => c.id = "A")
            /\ (c.vendor_id # WIIMOTE_VENDOR_ID => c.product_id = WIIMOTE_PRODUCT_ID)
            /\ (c.product_id = WIIMOTE_PLUS_PRODUCT_ID => c.id = "B")
            /\ (c.id = "B" => c.product_id = WIIMOTE_PLUS_PRODUCT_ID) }

SeqsUpTo(S, n) == UNION { [1..k -> S] : k \in 0..n }

\* The results an enumeration can report.
SocketEnumerations == SeqsUpTo(SocketCandidates, MaxCandidates)

HandleEnumerations == SeqsUpTo(HandleCandidates, MaxCandidates)

(***************************************************************************)
(* The heap of Wiimote objects.  heap[p].closed counts the runs of the     *)
(* destructor of object p (which closes its sockets or handles).           *)
(***************************************************************************)
\* Mutant: a device that already has an open Transport is not pushed again.
push_unless_known(s, identifier) ==
    IF \E p \in 1..Len(s.heap) :
          s.heap[p].identifier = identifier /\ s.heap[p].closed = 0
    THEN s
    ELSE [q    |-> Append(s.q, Len(s.heap) + 1),
          heap |-> Append(s.heap, [identifier |-> identifier, closed |-> 0])]

\* new Wiimote(identifier, ...): the registry state with the new object pushed.
push(s, identifier) ==
    LET p == Len(s.heap) + 1
    IN  [q    |-> Append(s.q, p),
         heap |-> Append(s.heap, [identifier |-> identifier, closed |-> 0])]

\* Mutant: the object is forgotten, its destructor never runs.
wiimote_cleanup_leak(h, p) == h

\* delete wiimote: runs the destructor of object p.
wiimote_cleanup(h, p) == [h EXCEPT ![p].closed = @ + 1]

(***************************************************************************)
(* wiimotes_scan, socket backend.                                          *)
(***************************************************************************)
\* connect_socket: the descriptor is returned iff socket() and connect() succeed.
connect_socket(succeeds) == succeeds

\* Mutant: the result of the data channel's connect is not tested.
handle_wiimote_data_unchecked(s, c) ==
    IF ~connect_socket(c.control) THEN s
    ELSE push(s, c.id)

handle_wiimote(s, c) ==
    IF ~connect_socket(c.control) THEN s
    ELSE IF ~connect_socket(c.data) THEN s
    ELSE push(s, c.id)

RECURSIVE inquiry_loop(_, _)
inquiry_loop(s, cands) ==
    IF cands = <<>> THEN s
    ELSE LET c == Head(cands)
             t == IF ~c.name_read THEN s
                  ELSE IF is_wiimote_device_name(c.name) THEN handle_wiimote(s, c)
                  ELSE s
         IN  inquiry_loop(t, Tail(cands))

\* Mutant: the scan counts the Transports it pushed itself.
wiimotes_scan_socket_own_count(s, enumeration, cands) ==
    IF enumeration # "ok" THEN [s |-> s, ret |-> 0]
    ELSE LET t == inquiry_loop(s, cands)
         IN  [s |-> t, ret |-> Len(t.q) - Len(s.q)]

\* enumeration is "no_adapter", "inquiry_failed" or "ok".
wiimotes_scan_socket(s, enumeration, cands) ==
    IF enumeration = "no_adapter" THEN [s |-> s, ret |-> Len(s.q)]
    ELSE IF enumeration = "inquiry_failed" THEN [s |-> s, ret |-> Len(s.q)]
    ELSE LET t == inquiry_loop(s, cands)
         IN  [s |-> t, ret |-> Len(t.q)]

(***************************************************************************)
(* wiimotes_scan, handle backend.                                          *)
(***************************************************************************)
RECURSIVE hid_device_loop(_, _)
hid_device_loop(s, cands) ==
    IF cands = <<>> THEN s
    ELSE LET c == Head(cands)
             t == IF ~c.info THEN s
                  ELSE IF is_wiimote(c.vendor_id, c.product_id)
                       THEN (IF ~c.open THEN s ELSE push(s, c.id))
                       ELSE s
         IN  hid_device_loop(t, Tail(cands))

\* Mutant: a failed enumeration drops what the queue held.
enumerate_hid_devices_drops_queue(s, enumeration, cands) ==
    IF enumeration = "size_failed" THEN [s EXCEPT !.q = <<>>]
    ELSE IF enumeration = "list_failed" THEN [s EXCEPT !.q = <<>>]
    ELSE hid_device_loop(s, cands)

\* enumeration is "size_failed", "list_failed" or "ok".
enumerate_hid_devices(s, enumeration, cands) ==
    IF enumeration = "size_failed" THEN s
    ELSE IF enumeration = "list_failed" THEN s
    ELSE hid_device_loop(s, cands)

wiimotes_scan_handle(s, enumeration, cands) ==
    LET t == enumerate_hid_devices(s, enumeration, cands)
    IN  [s |-> t, ret |-> Len(t.q)]

(***************************************************************************)
(* wiimotes_get_next: the result and the queue it leaves.                  *)
(***************************************************************************)
\* Mutant: the queue is read from its back (LIFO).
wiimotes_get_next_lifo(q) ==
    IF q = <<>> THEN [ret |-> NULL, q |-> q]
    ELSE [ret |-> q[Len(q)], q |-> SubSeq(q, 1, Len(q) - 1)]

\* Mutant: a queue holding one entry is taken for an empty one.
wiimotes_get_next_off_by_one(q) ==
    IF Len(q) <= 1 THEN [ret |-> NULL, q |-> q]
    ELSE [ret |-> Head(q), q |-> Tail(q)]

\* Mutant: front() without pop().
wiimotes_get_next_no_pop(q) ==
    IF q = <<>> THEN [ret |-> NULL, q |-> q]
    ELSE [ret |-> Head(q), q |-> q]

wiimotes_get_next(q) ==
    IF q = <<>> THEN [ret |-> NULL, q |-> q]
    ELSE [ret |-> Head(q), q |-> Tail(q)]

(***************************************************************************)
(* One Transport of the handle backend: WiimoteWindows (wiimote_win.cpp)   *)
(* and the operating system's side of its overlapped read.                 *)
(*                                                                         *)
(* The transport is the record t:                                          *)
(*   pending     m_read_pending                                            *)
(*   scratch     m_read_buffer                                             *)
(*   event       m_overlapped_read.hEvent is signalled                     *)
(*   in_flight   reads the OS has started and the device not yet completed *)
(*   completion  the completion status the OS holds for GetOverlappedResult*)
(*   next_report, completed   the device's report counter and its history  *)
(* Report number k is k repeated; a completion of length n puts n such     *)
(* bytes at the start of the scratch buffer.                               *)
(***************************************************************************)
Min(a, b) == IF a <= b THEN a ELSE b

Fill(len, v) == [i \in 1..len |-> v]

\* The completion status of m_overlapped_read: "none" while no read has
\* completed since the last ReadFile; fetched once GetOverlappedResult has
\* reported it (the status stays in the OVERLAPPED until the next ReadFile).
NoCompletion == [status |-> "none", n |-> 0, fetched |-> FALSE]

\* What the operating system and the device may do during one read call:
\*   readfile  how ReadFile returns: TRUE ("sync"), FALSE with
\*             ERROR_IO_PENDING ("pending"), FALSE with another error ("error")
\*   wait      whether WaitForSingleObject itself works ("ok") or fails
\*   during    what the device does with the read in flight while the call
\*             waits: nothing, complete it ("ok"), or fail it ("error")
\*   n         the length of the report a completion carries
\* Fields the code can not observe for an outcome are fixed.
ReadOutcomes ==
    { o \in [readfile : {"sync", "pending", "error"}, wait : {"ok", "failed"},
             during : {"none", "ok", "error"}, n : 1..InputReportLen] :
        /\ (o.readfile # "pending" => o.wait = "ok" /\ o.during = "none")
        /\ (o.wait = "failed" => o.during = "none")
        /\ (o.readfile # "sync" /\ o.during # "ok" => o.n = 1) }

\* The device completes the read in flight with its next report, of n bytes.
DeviceCompletesRead(t, n) ==
    [t EXCEPT !.in_flight = @ - 1,
              !.scratch = [i \in 1..Len(@) |-> IF i <= n THEN t.next_report ELSE @[i]],
              !.completion = [status |-> "ok", n |-> n, fetched |-> FALSE],
              !.event = TRUE,
              !.completed = Append(@, t.next_report),
              !.next_report = @ + 1]

\* The read in flight fails (the device went away).
DeviceFailsRead(t) ==
    [t EXCEPT !.in_flight = @ - 1,
              !.completion = [status |-> "error", n |-> 0, fetched |-> FALSE],
              !.event = TRUE]

DeviceActs(t, during, n) ==
    IF t.in_flight = 0 THEN t
    ELSE IF during = "ok" THEN DeviceCompletesRead(t, n)
    ELSE IF during = "error" THEN DeviceFailsRead(t)
    ELSE t

\* ReadFile(m_handle, m_read_buffer.data(), m_read_buffer.size(), nullptr,
\* &m_overlapped_read): starts a read; the event is reset when it starts.
ReadFile(t, outcome, n) ==
    LET started == [t EXCEPT !.event = FALSE, !.in_flight = @ + 1,
                             !.completion = NoCompletion]
    IN  IF outcome = "sync" THEN DeviceCompletesRead(started, n)
        ELSE IF outcome = "pending" THEN started
        ELSE [t EXCEPT !.event = FALSE]

\* Mutant: a read is issued on every call.
must_issue_always(pending) == TRUE

\* if (!m_read_pending)
must_issue(pending) == ~pending

\* Mutant: a timed-out wait gives the read up.
on_wait_timeout_clears(t) == [t EXCEPT !.pending = FALSE]

\* if (wait_result == WAIT_TIMEOUT) return 0: the transport as it is left.
on_wait_timeout(t) == t

\* Mutant: the read stays marked pending after its result was fetched.
after_fetch_still_pending(t) == [t EXCEPT !.completion.fetched = TRUE]

\* GetOverlappedResult has reported the completion; m_read_pending = false.
after_fetch(t) == [t EXCEPT !.pending = FALSE, !.completion.fetched = TRUE]

\* Mutant: the whole report is copied whatever the caller's capacity.
bytes_to_copy_unclipped(bytes_read, buffer_size) == bytes_read

\* std::min(static_cast<size_t>(bytes_read), buffer_size)
bytes_to_copy(bytes_read, buffer_size) == Min(bytes_read, buffer_size)

\* std::copy_n(src, n, buffer) into a buffer of the given capacity: the
\* buffer afterwards, and whether the copy ran past its end.
copy_n(src, n, capacity) ==
    [out     |-> [i \in 1..capacity |-> IF i <= n THEN src[i] ELSE UNWRITTEN],
     overrun |-> n > capacity]

\* WiimoteWindows::read_timeout_impl on transport t with a caller's buffer of
\* `capacity` bytes; has_timeout says whether timeout_millis has a value.
\* The result: the transport afterwards, the value returned, the caller's
\* buffer, and what the call did.  blocks: the call can not return with these
\* outcomes (it waits for a completion that does not come).
read_timeout_impl(t, capacity, has_timeout, timeout, o) ==
    LET buffer_size == Min(capacity, Len(t.scratch))
        issue == must_issue(t.pending)
        t0 == IF issue
              THEN ReadFile([t EXCEPT !.event = FALSE,
                                      !.scratch = Fill(Len(t.scratch), 0)],
                            o.readfile, o.n)
              ELSE t
        did_read == issue /\ o.readfile = "sync"
        hard_error == issue /\ o.readfile = "error"
        t1 == IF issue THEN [t0 EXCEPT !.pending = TRUE] ELSE t0
        waits == ~did_read /\ has_timeout
        t2 == IF waits /\ o.wait = "ok" /\ ~t1.event /\ timeout > 0
              THEN DeviceActs(t1, o.during, o.n) ELSE t1
        wait_result == IF o.wait = "failed" THEN "WAIT_FAILED"
                       ELSE IF t2.event THEN "WAIT_OBJECT_0"
                       ELSE "WAIT_TIMEOUT"
        \* GetOverlappedResult(..., true) waits for the completion.
        t3 == IF t2.completion.status = "none"
              THEN DeviceActs(t2, o.during, o.n) ELSE t2
        result == t3.completion.status = "ok"
        bytes_read == t3.completion.n
        t4 == after_fetch(t3)
        copied == copy_n(t3.scratch, bytes_to_copy(bytes_read, buffer_size), capacity)
        none == [out |-> Fill(capacity, UNWRITTEN), overrun |-> FALSE]
        did == [issued |-> IF issue /\ ~hard_error THEN 1 ELSE 0,
                was_pending |-> t.pending,
                timed_out |-> FALSE, fetched |-> FALSE, report |-> 0,
                bytes_read |-> 0, os_error |-> FALSE]
    IN  IF hard_error
        THEN [t |-> t0, ret |-> -1, copy |-> none,
              did |-> [did EXCEPT !.os_error = TRUE], blocks |-> FALSE]
        ELSE IF waits /\ wait_result = "WAIT_TIMEOUT"
        THEN [t |-> on_wait_timeout(t2), ret |-> 0, copy |-> none,
              did |-> [did EXCEPT !.timed_out = TRUE], blocks |-> FALSE]
        ELSE IF waits /\ wait_result # "WAIT_OBJECT_0"
        THEN [t |-> t1, ret |-> -1, copy |-> none,
              did |-> [did EXCEPT !.os_error = TRUE], blocks |-> FALSE]
        ELSE IF t3.completion.status = "none"
        THEN [t |-> t, ret |-> 0, copy |-> none, did |-> did, blocks |-> TRUE]
        ELSE IF result
        THEN [t |-> t4, ret |-> bytes_to_copy(bytes_read, buffer_size),
              copy |-> copied,
              did |-> [did EXCEPT !.fetched = TRUE, !.report = t3.scratch[1],
                                  !.bytes_read = bytes_read],
              blocks |-> FALSE]
        ELSE [t |-> t4, ret |-> -1, copy |-> none,
              did |-> [did EXCEPT !.fetched = TRUE, !.os_error = TRUE],
              blocks |-> FALSE]

(***************************************************************************)
(* WiimoteWindows::write and the operating system's side of its overlapped *)
(* write.  The write side of the transport is the record w:                *)
(*   pending     m_write_pending                                           *)
(*   scratch     m_write_buffer                                            *)
(*   event       m_overlapped_write.hEvent is signalled                    *)
(*   in_flight   writes the OS has started and the device not yet taken    *)
(*   completion  the completion status the OS holds in m_overlapped_write  *)
(*   submitted   the reports handed to WriteFile so far                    *)
(***************************************************************************)
\* What the operating system and the device may do during one write call:
\*   prev_wait  whether the wait for the previous write works or fails
\*   writefile  how WriteFile returns: TRUE ("sync"), FALSE with
\*              ERROR_IO_PENDING ("pending"), FALSE with another error, the
\*              event left as it was ("error") or reset ("error_reset")
\*   wait       whether the wait for this write works or fails
\*   during     how a write in flight ends while the call waits for it
\* Fields the code can not observe for an outcome are fixed.
WriteOutcomes ==
    { o \in [prev_wait : {"ok", "failed"},
             writefile : {"sync", "pending", "error", "error_reset"},
             wait : {"ok", "failed"}, during : {"ok", "error"}] :
        /\ (o.writefile # "pending" => o.wait = "ok")
        /\ (o.wait = "failed" => o.during = "ok") }

\* The device takes, or fails, one write in flight; the OS reports the whole
\* report as written.
DeviceCompletesWrite(w, during) ==
    [w EXCEPT !.in_flight = @ - 1,
              !.completion = [status |-> during,
                              n |-> IF during = "ok" THEN Len(w.scratch) ELSE 0,
                              fetched |-> FALSE],
              !.event = TRUE]

\* WriteFile(m_handle, m_write_buffer.data(), m_write_buffer.size(), nullptr,
\* &m_overlapped_write): hands the scratch buffer to the OS; the event is
\* reset when the write starts.
WriteFile(w, data_size, outcome) ==
    LET started == [w EXCEPT !.event = FALSE, !.in_flight = @ + 1,
                             !.completion = NoCompletion,
                             !.submitted = Append(@, [report |-> w.scratch,
                                                      data_size |-> data_size])]
    IN  IF outcome = "sync" THEN DeviceCompletesWrite(started, "ok")
        ELSE IF outcome = "pending" THEN started
        ELSE IF outcome = "error_reset" THEN [w EXCEPT !.event = FALSE]
        ELSE w

\* Mutant: the rest of the scratch buffer keeps what the write before left.
zero_pad_none(scratch, data_size) == scratch

\* std::fill(m_write_buffer.begin() + data_size, m_write_buffer.end(), 0)
zero_pad(scratch, data_size) ==
    [i \in 1..Len(scratch) |-> IF i > data_size THEN 0 ELSE scratch[i]]

\* std::copy_n(buffer, data_size, m_write_buffer.begin())
copy_in(scratch, data, data_size) ==
    [i \in 1..Len(scratch) |-> IF i <= data_size THEN data[i] ELSE scratch[i]]

\* WiimoteWindows::write of the first size bytes of data.  The result: the
\* write side afterwards, the value returned, whether the OS failed, and
\* blocks: the call never returns (it waits for an event nothing signals).
handle_write(w, data, size, o) ==
    LET \* if (m_write_pending) WaitForSingleObject(hEvent, INFINITE)
        must_wait == w.pending /\ o.prev_wait = "ok" /\ ~w.event
        w0 == IF must_wait /\ w.in_flight > 0
              THEN DeviceCompletesWrite(w, o.during) ELSE w
        stuck == must_wait /\ w.in_flight = 0
        data_size == Min(size, Len(w.scratch))
        w1 == [w0 EXCEPT !.pending = TRUE,
                         !.scratch = zero_pad(copy_in(@, data, data_size), data_size)]
        w2 == WriteFile(w1, size, o.writefile)
        did_write == o.writefile = "sync"
        hard_error == o.writefile \in {"error", "error_reset"}
        wait_failed == ~did_write /\ o.wait = "failed"
        \* WaitForSingleObject(hEvent, INFINITE) ends when a write completes.
        w3 == IF did_write THEN w2 ELSE DeviceCompletesWrite(w2, o.during)
        w4 == [w3 EXCEPT !.pending = FALSE, !.completion.fetched = TRUE]
    IN  IF stuck
        THEN [w |-> w, ret |-> 0, os_error |-> FALSE, blocks |-> TRUE]
        ELSE IF hard_error
        THEN [w |-> w2, ret |-> -1, os_error |-> TRUE, blocks |-> FALSE]
        ELSE IF wait_failed
        THEN [w |-> [w2 EXCEPT !.pending = FALSE], ret |-> -1, os_error |-> TRUE,
              blocks |-> FALSE]
        ELSE IF w3.completion.status = "ok"
        THEN [w |-> w4, ret |-> w3.completion.n, os_error |-> FALSE,
              blocks |-> FALSE]
        ELSE [w |-> w4, ret |-> -1, os_error |-> TRUE, blocks |-> FALSE]

(***************************************************************************)
(* One Transport of the socket backend: WiimoteLinux (wiimote_linux.cpp).  *)
(* A frame is a sequence of bytes; byte i of a payload has the value i.    *)
(***************************************************************************)
Payload(n) == [i \in 1..n |-> i]

\* Lengths of payloads and capacities of buffers around the size of the
\* scratch buffers of WiimoteLinux::read and WiimoteLinux::write.
SocketSizes == {0, 1, 2, DEFAULT_BUFFER_SIZE - 1, DEFAULT_BUFFER_SIZE,
                DEFAULT_BUFFER_SIZE + 1}

\* What ::read on the data socket can meet: an error, the end of the stream,
\* or the next frame of the device (with the input marker or another byte).
SocketReadOutcomes ==
    { [kind |-> "error", frame |-> <<>>], [kind |-> "eof", frame |-> <<>>] }
    \cup { [kind |-> "frame", frame |-> <<m>> \o Payload(n)] :
             m \in {INPUT_PREFIX, OUTPUT_PREFIX}, n \in SocketSizes }

\* ::read(fd, buf, count) on a SOCK_SEQPACKET socket: -1, 0, or the length of
\* the frame cut to count.
os_read(o, count) ==
    IF o.kind = "error" THEN -1
    ELSE IF o.kind = "eof" THEN 0
    ELSE Min(Len(o.frame), count)

\* std::min(sizeof(read_buffer) - 1, buffer_size)
max_data_size(buffer_size) == Min(DEFAULT_BUFFER_SIZE - 1, buffer_size)

\* Mutant: the first byte of the frame is not looked at.
socket_read_unchecked(capacity, o) ==
    LET bytes_read == os_read(o, max_data_size(capacity))
        none == [out |-> Fill(capacity, UNWRITTEN), overrun |-> FALSE]
    IN  IF bytes_read <= 0
        THEN [ret |-> bytes_read, copy |-> none, aborted |-> FALSE,
              os_error |-> bytes_read < 0, bytes_read |-> bytes_read, marker |-> 0]
        ELSE [ret |-> bytes_read - 1,
              copy |-> copy_n(Tail(o.frame), bytes_read - 1, capacity),
              aborted |-> FALSE, os_error |-> FALSE,
              bytes_read |-> bytes_read, marker |-> o.frame[1]]

\* WiimoteLinux::read into a caller's buffer of `capacity` bytes.  The result
\* also tells what ::read returned (bytes_read) and read_buffer[0] of a frame
\* received (marker, 0 when no byte was received).
socket_read(capacity, o) ==
    LET bytes_read == os_read(o, max_data_size(capacity))
        none == [out |-> Fill(capacity, UNWRITTEN), overrun |-> FALSE]
    IN  IF bytes_read <= 0
        THEN [ret |-> bytes_read, copy |-> none, aborted |-> FALSE,
              os_error |-> bytes_read < 0, bytes_read |-> bytes_read, marker |-> 0]
        ELSE IF o.frame[1] # INPUT_PREFIX
        THEN [ret |-> 0, copy |-> none, aborted |-> TRUE, os_error |-> FALSE,
              bytes_read |-> bytes_read, marker |-> o.frame[1]]
        ELSE [ret |-> bytes_read - 1,
              copy |-> copy_n(Tail(o.frame), bytes_read - 1, capacity),
              aborted |-> FALSE, os_error |-> FALSE,
              bytes_read |-> bytes_read, marker |-> o.frame[1]]

\* poll(&read_poll, 1, timeout_millis): -1 on error, 0 on timeout, 1 when the
\* data socket is readable.
PollResults == {-1, 0, 1}

\* WiimoteLinux::read_timeout.
socket_read_timeout(capacity, result, o) ==
    IF result <= 0
    THEN [ret |-> result,
          copy |-> [out |-> Fill(capacity, UNWRITTEN), overrun |-> FALSE],
          aborted |-> FALSE, os_error |-> result < 0, bytes_read |-> 0,
          marker |-> 0]
    ELSE socket_read(capacity, o)

\* What ::write on the data socket can do with a frame: fail, or send it whole.
SocketWriteOutcomes == {"error", "sent"}

os_write(outcome, count) == IF outcome = "error" THEN -1 ELSE count

\* Mutant: the count returned includes the marker byte.
socket_write_counts_marker(data, data_size, outcome) ==
    LET data_bytes == Min(DEFAULT_BUFFER_SIZE - 1, data_size)
        write_buffer == <<OUTPUT_PREFIX>> \o SubSeq(data, 1, data_bytes)
        bytes_written == os_write(outcome, data_bytes + 1)
    IN  [ret |-> bytes_written,
         wire |-> IF outcome = "sent" THEN write_buffer ELSE <<>>,
         os_error |-> bytes_written < 0]

\* WiimoteLinux::write of the first data_size bytes of data.
socket_write(data, data_size, outcome) ==
    LET data_bytes == Min(DEFAULT_BUFFER_SIZE - 1, data_size)
        write_buffer == <<OUTPUT_PREFIX>> \o SubSeq(data, 1, data_bytes)
        bytes_written == os_write(outcome, data_bytes + 1)
    IN  [ret |-> bytes_written - 1,
         wire |-> IF outcome = "sent" THEN write_buffer ELSE <<>>,
         os_error |-> bytes_written < 0]

\* The history of a call: its arguments, what it did, and whether the device
\* has acted since it returned.  looped: the call read the frame a loopback
\* peer made of the last frame written, whose write had data_size `written`.
NoCall == [has_timeout |-> FALSE, timeout |-> 0, capacity |-> 0, issued |-> 0,
           was_pending |-> FALSE, timed_out |-> FALSE, fetched |-> FALSE,
           report |-> 0, bytes_read |-> 0, os_error |-> FALSE, since |-> FALSE,
           looped |-> FALSE, written |-> 0, marker |-> 0]

NoPrev == [op |-> "none", issued |-> 0, was_pending |-> FALSE, timed_out |-> FALSE]

\* A freshly constructed WiimoteWindows and an idle device.
NewTransport ==
    /\ m_read_pending = FALSE
    /\ m_read_buffer = Fill(InputReportLen, 0)
    /\ read_event = FALSE
    /\ reads_in_flight = 0
    /\ read_completion = NoCompletion
    /\ next_report = 1
    /\ completed = <<>>
    /\ delivered = <<>>
    /\ m_write_pending = FALSE
    /\ m_write_buffer = Fill(OutputReportLen, 0)
    /\ write_event = FALSE
    /\ writes_in_flight = 0
    /\ write_completion = NoCompletion
    /\ submitted = <<>>
    /\ blocked = FALSE

\* The threads that call the registry.
Threads == {"t1", "t2"}

\* No thread is inside wiimotes_get_next.
NoThreads == [t \in Threads |-> [pc |-> "idle", wiimote |-> NULL, raced |-> FALSE]]

NoCallYet ==
    /\ threads = NoThreads
    /\ buffer = <<>>
    /\ overrun = FALSE
    /\ call = NoCall
    /\ prev = NoPrev
    /\ wire = <<>>
    /\ aborted = FALSE

\* The registry model does not exercise the Transports it holds.
IoIdle == NewTransport /\ NoCallYet

(***************************************************************************)
(* Registry state machine.                                                 *)
(***************************************************************************)
NoSnapshot == [q |-> <<>>, heap |-> <<>>]

Init ==
    /\ IoIdle
    /\ backend \in Backends
    /\ wiimotes = <<>>
    /\ heap = <<>>
    /\ held = {}
    /\ connected_wiimotes = 0
    /\ pc = "idle"
    /\ op = "none"
    /\ ret = NULL
    /\ enqueued = <<>>
    /\ returned = <<>>
    /\ found = 0
    /\ snapshot = NoSnapshot
    /\ violation = {}

\* The tail of sequence s after its first n elements.
Drop(s, n) == SubSeq(s, n + 1, Len(s))

ScanReturns(r) ==
    /\ Len(r.s.heap) <= MaxTransports
    /\ wiimotes' = r.s.q
    /\ heap' = r.s.heap
    /\ enqueued' = enqueued \o Drop(r.s.q, Len(wiimotes))
    /\ found' = Len(r.s.heap) - Len(heap)
    /\ op' = "scan"
    /\ ret' = r.ret
    /\ snapshot' = NoSnapshot
    /\ UNCHANGED <<threads, backend, held, pc, returned, violation>>

ScanSocket ==
    /\ UNCHANGED ioVars
    /\ pc = "idle"
    /\ backend = "socket"
    /\ \E enumeration \in {"no_adapter", "inquiry_failed", "ok"} :
       \E cands \in (IF enumeration = "ok"
                     THEN SocketEnumerations ELSE {<<>>}) :
       \E r \in {wiimotes_scan_socket([q |-> wiimotes, heap |-> heap],
                                      enumeration, cands)} :
          ScanReturns(r)
    /\ UNCHANGED connected_wiimotes

\* enable_wiimotes_hid_service registers n further bluetooth devices, then the
\* HID interface list is walked.
ScanHandle ==
    /\ UNCHANGED ioVars
    /\ pc = "idle"
    /\ backend = "handle"
    /\ \E n \in 0..(MaxRegistered - connected_wiimotes) :
          connected_wiimotes' = connected_wiimotes + n
    /\ \E enumeration \in {"size_failed", "list_failed", "ok"} :
       \E cands \in (IF enumeration = "ok"
                     THEN HandleEnumerations ELSE {<<>>}) :
       \E r \in {wiimotes_scan_handle([q |-> wiimotes, heap |-> heap],
                                      enumeration, cands)} :
          ScanReturns(r)

\* The caller claims the next Transport.
GetNext ==
    /\ UNCHANGED ioVars
    /\ pc = "idle"
    /\ \E r \in {wiimotes_get_next(wiimotes)} :
           /\ wiimotes' = r.q
           /\ ret' = r.ret
           /\ held' = IF r.ret = NULL THEN held ELSE held \cup {r.ret}
           /\ returned' = IF r.ret = NULL THEN returned ELSE Append(returned, r.ret)
           /\ violation' = IF r.ret # NULL /\ heap[r.ret].closed > 0
                           THEN violation \cup {"handed_out_destroyed"}
                           ELSE violation
    /\ op' = "get_next"
    /\ found' = 0
    /\ snapshot' = NoSnapshot
    /\ UNCHANGED <<threads, backend, heap, connected_wiimotes, pc, enqueued>>

\* The caller closes a Transport it holds.
Cleanup ==
    /\ UNCHANGED ioVars
    /\ pc = "idle"
    /\ \E p \in held :
          /\ heap' = wiimote_cleanup(heap, p)
          /\ held' = held \ {p}
    /\ op' = "cleanup"
    /\ ret' = NULL
    /\ found' = 0
    /\ snapshot' = NoSnapshot
    /\ UNCHANGED <<threads, backend, wiimotes, connected_wiimotes, pc, enqueued, returned,
                   violation>>

\* wiimotes_scan_cleanup is entered.
ScanCleanupCall ==
    /\ UNCHANGED ioVars
    /\ pc = "idle"
    /\ pc' = "cleanup"
    /\ snapshot' = [q |-> wiimotes, heap |-> heap]
    /\ UNCHANGED <<threads, backend, wiimotes, heap, held, connected_wiimotes, op, ret,
                   enqueued, returned, found, violation>>

\* One evaluation of the loop condition of wiimotes_scan_cleanup: either one
\* iteration of the body, or the exit of the loop and the rest of the function.
ScanCleanupStep ==
    /\ UNCHANGED ioVars
    /\ pc = "cleanup"
    /\ \E r \in {wiimotes_get_next(wiimotes)} :
           /\ wiimotes' = r.q
           /\ IF r.ret # NULL
              THEN /\ heap' = wiimote_cleanup(heap, r.ret)
                   /\ returned' = Append(returned, r.ret)
                   /\ violation' = violation
                         \cup (IF r.ret \in held THEN {"destroyed_claimed"} ELSE {})
                         \cup (IF heap[r.ret].closed > 0 THEN {"destroyed_twice"} ELSE {})
                   /\ UNCHANGED <<pc, op, ret, connected_wiimotes>>
              ELSE /\ connected_wiimotes' = 0
                   /\ pc' = "idle"
                   /\ op' = "scan_cleanup"
                   /\ ret' = NULL
                   /\ UNCHANGED <<heap, returned, violation>>
    /\ found' = 0
    /\ UNCHANGED <<threads, backend, held, enqueued, snapshot>>

Next ==
    \/ ScanSocket
    \/ ScanHandle
    \/ GetNext
    \/ Cleanup
    \/ ScanCleanupCall
    \/ ScanCleanupStep

Spec == Init /\ [][Next]_vars

\* wiimotes_scan_cleanup is a sequential loop: once entered it keeps running.
FairSpec == Spec /\ WF_vars(ScanCleanupStep)

(***************************************************************************)
(* Transport state machine: the caller holds one Transport, claimed from   *)
(* the registry, and reads from it; the device completes reads.            *)
(***************************************************************************)
IoInit ==
    /\ backend \in Backends
    /\ wiimotes = <<>>
    /\ heap = <<[identifier |-> "A", closed |-> 0]>>
    /\ held = {1}
    /\ connected_wiimotes = 0
    /\ pc = "idle"
    /\ op = "get_next"
    /\ ret = 1
    /\ enqueued = <<1>>
    /\ returned = <<1>>
    /\ found = 0
    /\ snapshot = NoSnapshot
    /\ violation = {}
    /\ NewTransport
    /\ NoCallYet

\* The transport record of the state.
Transport ==
    [pending |-> m_read_pending, scratch |-> m_read_buffer, event |-> read_event,
     in_flight |-> reads_in_flight, completion |-> read_completion,
     next_report |-> next_report, completed |-> completed]

SetTransport(t) ==
    /\ m_read_pending' = t.pending
    /\ m_read_buffer' = t.scratch
    /\ read_event' = t.event
    /\ reads_in_flight' = t.in_flight
    /\ read_completion' = t.completion
    /\ next_report' = t.next_report
    /\ completed' = t.completed

Capacities == 0..(InputReportLen + 1)

\* The device has reports left to send.
DeviceHasReport(t) == t.next_report <= MaxReports

\* A call of read (has_timeout = FALSE) or read_timeout returns.
HandleReadReturns(name, has_timeout, timeout, capacity, o) ==
    /\ held # {}
    /\ (m_read_pending => o.readfile = "pending")
    /\ (m_read_pending /\ reads_in_flight = 0 => o.during = "none")
    /\ \E r \in {read_timeout_impl(Transport, capacity, has_timeout, timeout, o)} :
        /\ ~r.blocks
        /\ (r.t.next_report # next_report => DeviceHasReport(Transport))
        /\ SetTransport(r.t)
        /\ delivered' = IF r.did.report # 0 THEN Append(delivered, r.did.report)
                        ELSE delivered
        /\ op' = name
        /\ ret' = r.ret
        /\ buffer' = r.copy.out
        /\ overrun' = (overrun \/ r.copy.overrun)
        /\ call' = [has_timeout |-> has_timeout, timeout |-> timeout,
                    capacity |-> capacity, issued |-> r.did.issued,
                    was_pending |-> r.did.was_pending,
                    timed_out |-> r.did.timed_out, fetched |-> r.did.fetched,
                    report |-> r.did.report, bytes_read |-> r.did.bytes_read,
                    os_error |-> r.did.os_error, since |-> FALSE,
                    looped |-> FALSE, written |-> 0, marker |-> 0]
        /\ prev' = [op |-> op, issued |-> call.issued,
                    was_pending |-> call.was_pending, timed_out |-> call.timed_out]

\* wiimote_read on the handle backend: WiimoteWindows::read.
HandleRead ==
    /\ backend = "handle"
    /\ \E capacity \in Capacities : \E o \in ReadOutcomes :
          HandleReadReturns("read", FALSE, 0, capacity, o)
    /\ UNCHANGED <<socketVars, writeVars>>
    /\ UNCHANGED <<threads, backend, wiimotes, heap, held, connected_wiimotes, pc,
                   enqueued, returned, found, snapshot, violation>>

\* wiimote_read_timeout on the handle backend: WiimoteWindows::read_timeout,
\* as a poll (timeout 0) or with a positive timeout.
HandleReadTimeout ==
    /\ backend = "handle"
    /\ \E capacity \in Capacities : \E timeout \in {0, 1} : \E o \in ReadOutcomes :
          HandleReadReturns("read_timeout", TRUE, timeout, capacity, o)
    /\ UNCHANGED <<socketVars, writeVars>>
    /\ UNCHANGED <<threads, backend, wiimotes, heap, held, connected_wiimotes, pc,
                   enqueued, returned, found, snapshot, violation>>

\* Between two calls the device completes, or fails, the read in flight.
DeviceCompletes ==
    /\ backend = "handle"
    /\ held # {}
    /\ reads_in_flight > 0
    /\ \/ \E n \in 1..InputReportLen :
             /\ DeviceHasReport(Transport)
             /\ SetTransport(DeviceCompletesRead(Transport, n))
       \/ SetTransport(DeviceFailsRead(Transport))
    /\ call' = [call EXCEPT !.since = TRUE]
    /\ UNCHANGED <<regVars, buffer, overrun, prev, socketVars, delivered, writeVars>>

\* A call on the socket backend returns, or the process is terminated.
SocketReturns(name, has_timeout, capacity, r, written) ==
    /\ backend = "socket"
    /\ held # {}
    /\ ~aborted
    /\ op' = name
    /\ ret' = r.ret
    /\ buffer' = r.copy.out
    /\ overrun' = (overrun \/ r.copy.overrun)
    /\ aborted' = r.aborted
    /\ call' = [NoCall EXCEPT !.has_timeout = has_timeout, !.capacity = capacity,
                              !.os_error = r.os_error,
                              !.bytes_read = r.bytes_read,
                              !.marker = r.marker,
                              !.looped = (written >= 0),
                              !.written = IF written >= 0 THEN written ELSE 0]
    /\ UNCHANGED prev
    /\ UNCHANGED <<threads, backend, wiimotes, heap, held, connected_wiimotes, pc,
                   enqueued, returned, found, snapshot, violation>>
    /\ UNCHANGED <<readVars, writeVars>>

\* wiimote_read on the socket backend.
SocketRead ==
    /\ \E capacity \in SocketSizes : \E o \in SocketReadOutcomes :
       \E r \in {socket_read(capacity, o)} :
          SocketReturns("read", FALSE, capacity, r, -1)
    /\ UNCHANGED wire

\* wiimote_read on the socket backend right after a wiimote_write whose frame
\* a loopback peer sends back: the payload of the frame behind the input
\* marker.
SocketReadLoopback ==
    /\ op = "write"
    /\ wire # <<>>
    /\ \E capacity \in SocketSizes :
       \E r \in {socket_read(capacity, [kind |-> "frame",
                                        frame |-> <<INPUT_PREFIX>> \o Tail(wire)])} :
          SocketReturns("read", FALSE, capacity, r, call.capacity)
    /\ UNCHANGED wire

\* wiimote_read_timeout on the socket backend.
SocketReadTimeout ==
    /\ \E capacity \in SocketSizes : \E result \in PollResults :
       \E o \in (IF result <= 0 THEN {[kind |-> "eof", frame |-> <<>>]}
                 ELSE SocketReadOutcomes) :
       \E r \in {socket_read_timeout(capacity, result, o)} :
          SocketReturns("read_timeout", TRUE, capacity, r, -1)
    /\ UNCHANGED wire

\* wiimote_write on the socket backend.
SocketWrite ==
    /\ \E data_size \in SocketSizes : \E outcome \in SocketWriteOutcomes :
       \E w \in {socket_write(Payload(data_size), data_size, outcome)} :
              /\ SocketReturns("write", FALSE, data_size,
                    [ret |-> w.ret, aborted |-> FALSE, os_error |-> w.os_error,
                     copy |-> [out |-> <<>>, overrun |-> FALSE],
                     bytes_read |-> 0, marker |-> 0], -1)
              /\ wire' = w.wire

IoNext ==
    \/ HandleRead
    \/ HandleReadTimeout
    \/ DeviceCompletes
    \/ SocketRead
    \/ SocketReadLoopback
    \/ SocketReadTimeout
    \/ SocketWrite

IoSpec == IoInit /\ [][IoNext]_vars

\* A read or read_timeout call made while the completion of the pending read
\* is waiting to be fetched (and whose wait on the event does not fail).
FetchingCall ==
    /\ backend = "handle"
    /\ m_read_pending
    /\ read_completion.status # "none"
    /\ \E capacity \in Capacities : \E timeout \in {-1, 0, 1} :
          HandleReadReturns(IF timeout < 0 THEN "read" ELSE "read_timeout",
                            timeout >= 0, IF timeout < 0 THEN 0 ELSE timeout, capacity,
                            [readfile |-> "pending", wait |-> "ok",
                             during |-> "none", n |-> 1])
    /\ UNCHANGED <<socketVars, writeVars>>
    /\ UNCHANGED <<threads, backend, wiimotes, heap, held, connected_wiimotes, pc,
                   enqueued, returned, found, snapshot, violation>>

\* The caller keeps calling read or read_timeout, and the wait on the valid
\* event of a live Transport does not fail forever.
IoFairSpec == IoSpec /\ WF_vars(FetchingCall)

(***************************************************************************)
(* Properties of the registry.                                             *)
(***************************************************************************)
Created == 1..Len(heap)

NoDuplicates(s) == \A i, j \in 1..Len(s) : s[i] = s[j] => i = j

InQueue(p) == \E i \in 1..Len(wiimotes) : wiimotes[i] = p

\* C1: wiimotes_get_next returns the Transports in the order discovery pushed
\* them, and each pushed Transport is returned by at most one call: the
\* results so far are a duplicate-free prefix of the push history, and what
\* was pushed and not yet returned is exactly the queue, in order.
C1_Fifo ==
    /\ Len(returned) <= Len(enqueued)
    /\ returned = SubSeq(enqueued, 1, Len(returned))
    /\ enqueued = returned \o wiimotes
    /\ NoDuplicates(enqueued)
    /\ NoDuplicates(returned)

\* Three Transports were pushed by more than one scan and all were returned.
C1_Witness ==
    /\ Len(returned) = 3
    /\ op = "get_next"
    /\ ret = 3

\* C2: on an empty queue wiimotes_get_next returns NULL and changes nothing
\* (the queue stays empty, no object is touched); on a non-empty queue it
\* never returns NULL.
C2_EmptyIsNone ==
    [][GetNext =>
         IF wiimotes = <<>>
         THEN /\ ret' = NULL
              /\ wiimotes' = <<>>
              /\ UNCHANGED <<threads, backend, heap, held, connected_wiimotes, pc, enqueued,
                             returned, violation>>
         ELSE ret' # NULL]_vars

\* Two Transports were claimed and the next wiimotes_get_next returned NULL.
C2_Witness ==
    /\ op = "get_next"
    /\ ret = NULL
    /\ Len(returned) = 2
    /\ wiimotes = <<>>

\* C3: the value a scan returns is the length of the queue when it returns,
\* that is everything pushed so far minus everything already taken out.
C3_ScanCount ==
    (pc = "idle" /\ op = "scan") =>
        /\ ret = Len(wiimotes)
        /\ ret = Len(enqueued) - Len(returned)

\* A scan that pushed one Transport returned 2, after an earlier one was claimed.
C3_Witness ==
    /\ pc = "idle"
    /\ op = "scan"
    /\ found = 1
    /\ ret = 2
    /\ Len(returned) = 1

\* C4: wiimotes_scan_cleanup returns, and when it has returned the queue is
\* empty, every Transport queued at the call has been closed (once), and no
\* other Transport was closed; on an empty queue it closes nothing.
C4_ScanCleanupDrains ==
    /\ [](pc = "idle" /\ op = "scan_cleanup" =>
            /\ wiimotes = <<>>
            /\ Len(heap) = Len(snapshot.heap)
            /\ \A p \in Created :
                  heap[p].closed = snapshot.heap[p].closed
                      + (IF \E i \in 1..Len(snapshot.q) : snapshot.q[i] = p
                         THEN 1 ELSE 0))
    /\ (pc = "cleanup") ~> (pc = "idle" /\ op = "scan_cleanup")

\* wiimotes_scan_cleanup returned after closing two queued Transports while a
\* third one is still held by the caller.
C4_Witness ==
    /\ pc = "idle"
    /\ op = "scan_cleanup"
    /\ Len(snapshot.q) = 2
    /\ held # {}

\* C5: every Transport ever created is in exactly one of the states queued,
\* claimed (held by the caller) and destroyed; it is queued at most once and
\* destroyed at most once; the registry never destroyed a claimed Transport
\* and never handed out a destroyed one.
C5_Ownership ==
    /\ \A p \in Created :
          /\ Cardinality({ i \in 1..Len(wiimotes) : wiimotes[i] = p })
               + (IF p \in held THEN 1 ELSE 0)
               + heap[p].closed = 1
    /\ held \subseteq Created
    /\ \A i \in 1..Len(wiimotes) : wiimotes[i] \in Created
    /\ violation = {}

\* One Transport is destroyed, one is held by the caller and one is queued.
C5_Witness ==
    /\ Len(heap) = 3
    /\ \E p \in Created : heap[p].closed = 1
    /\ \E p \in Created : p \in held
    /\ \E p \in Created : InQueue(p)

\* The caller reads from and writes to the Transport it holds until it
\* closes it with wiimote_cleanup: the destructor releases the events, the
\* handle and the scratch buffers, and the Transport is used no more.
CloseNext ==
    \/ IoNext
    \/ Cleanup

CloseSpec == IoInit /\ [][CloseNext]_vars

(***************************************************************************)
(* Write state machine: the caller holds one Transport of the handle       *)
(* backend and writes to it; the device takes the writes.  The read side   *)
(* and the write side of a WiimoteWindows share no member.                 *)
(***************************************************************************)
WriteInit == IoInit /\ backend = "handle"

\* The write side of the state.
WriteSide ==
    [pending |-> m_write_pending, scratch |-> m_write_buffer, event |-> write_event,
     in_flight |-> writes_in_flight, completion |-> write_completion,
     submitted |-> submitted]

SetWriteSide(w) ==
    /\ m_write_pending' = w.pending
    /\ m_write_buffer' = w.scratch
    /\ write_event' = w.event
    /\ writes_in_flight' = w.in_flight
    /\ write_completion' = w.completion
    /\ submitted' = w.submitted

DataSizes == 0..(OutputReportLen + 1)

\* wiimote_write on the handle backend: WiimoteWindows::write returns, or the
\* caller's thread stays in its first wait.
HandleWrite ==
    /\ backend = "handle"
    /\ held # {}
    /\ ~blocked
    /\ Len(submitted) < MaxWrites
    /\ \E size \in DataSizes : \E o \in WriteOutcomes :
        /\ (~m_write_pending => o.prev_wait = "ok")
        /\ \E r \in {handle_write(WriteSide, Payload(size), size, o)} :
            IF r.blocks
            THEN /\ blocked' = TRUE
                 /\ UNCHANGED <<m_write_pending, m_write_buffer, write_event,
                                writes_in_flight, write_completion, submitted,
                                op, ret, callVars>>
            ELSE /\ SetWriteSide(r.w)
                 /\ blocked' = FALSE
                 /\ op' = "write"
                 /\ ret' = r.ret
                 /\ buffer' = <<>>
                 /\ call' = [NoCall EXCEPT !.capacity = size,
                                           !.os_error = r.os_error]
                 /\ prev' = [NoPrev EXCEPT !.op = op]
                 /\ UNCHANGED overrun
    /\ UNCHANGED <<readVars, socketVars>>
    /\ UNCHANGED <<threads, backend, wiimotes, heap, held, connected_wiimotes, pc,
                   enqueued, returned, found, snapshot, violation>>

\* Between two calls the device takes, or fails, a write in flight.
DeviceTakesWrite ==
    /\ backend = "handle"
    /\ held # {}
    /\ ~blocked
    /\ writes_in_flight > 0
    /\ \E during \in {"ok", "error"} :
          SetWriteSide(DeviceCompletesWrite(WriteSide, during))
    /\ UNCHANGED <<regVars, readVars, callVars, socketVars, blocked>>

WriteNext ==
    \/ HandleWrite
    \/ DeviceTakesWrite

WriteSpec == WriteInit /\ [][WriteNext]_vars

(***************************************************************************)
(* Identifier accessors (wiimote_api.cpp).  An identifier is a sequence    *)
(* of non-zero bytes; the caller passes a buffer of `capacity` bytes.      *)
(***************************************************************************)
\* std::string::c_str(): the characters followed by the terminating zero.
c_str(str) == str \o <<0>>

\* memcpy(dest, src, n) into a buffer of Len(dest) bytes: the buffer
\* afterwards, and whether the copy ran past its end.
memcpy(dest, src, n) ==
    [out     |-> [i \in 1..Len(dest) |-> IF i <= n THEN src[i] ELSE dest[i]],
     overrun |-> n > Len(dest)]

wiimote_get_identifier_length(wiimote) == Len(wiimote.identifier) + 1

\* Mutant: the terminating zero is not counted.
wiimote_get_identifier_no_null(wiimote, identifier, identifier_buffer_length) ==
    LET wiimote_identifier == wiimote.identifier
        length_with_null == Len(wiimote_identifier) + 1
    IN  IF Len(wiimote_identifier) > identifier_buffer_length
        THEN [ret |-> FALSE, copy |-> [out |-> identifier, overrun |-> FALSE]]
        ELSE [ret |-> TRUE,
              copy |-> memcpy(identifier, c_str(wiimote_identifier), length_with_null)]

wiimote_get_identifier(wiimote, identifier, identifier_buffer_length) ==
    LET wiimote_identifier == wiimote.identifier
        length_with_null == Len(wiimote_identifier) + 1
    IN  IF length_with_null > identifier_buffer_length
        THEN [ret |-> FALSE, copy |-> [out |-> identifier, overrun |-> FALSE]]
        ELSE [ret |-> TRUE,
              copy |-> memcpy(identifier, c_str(wiimote_identifier), length_with_null)]

\* The identifiers a Transport may have, as byte strings.
IdentifierStrings == UNION { [1..n -> {65, 66}] : n \in 0..MaxIdLen }

IdCapacities == 0..(MaxIdLen + 2)

\* The caller holds one Transport whose identifier is any of the strings.
IdInit ==
    /\ backend \in Backends
    /\ wiimotes = <<>>
    /\ \E id \in IdentifierStrings : heap = <<[identifier |-> id, closed |-> 0]>>
    /\ held = {1}
    /\ connected_wiimotes = 0
    /\ pc = "idle"
    /\ op = "get_next"
    /\ ret = 1
    /\ enqueued = <<1>>
    /\ returned = <<1>>
    /\ found = 0
    /\ snapshot = NoSnapshot
    /\ violation = {}
    /\ IoIdle

GetIdentifierLength ==
    /\ \E p \in held :
          /\ ret' = wiimote_get_identifier_length(heap[p])
          /\ call' = [NoCall EXCEPT !.capacity = 0]
    /\ op' = "get_identifier_length"
    /\ buffer' = <<>>
    /\ UNCHANGED <<threads, backend, wiimotes, heap, held, connected_wiimotes, pc,
                   enqueued, returned, found, snapshot, violation>>
    /\ UNCHANGED <<readVars, writeVars, socketVars, overrun, prev>>

GetIdentifier ==
    /\ \E p \in held : \E capacity \in IdCapacities :
       \E r \in {wiimote_get_identifier(heap[p], Fill(capacity, UNWRITTEN), capacity)} :
          /\ ret' = r.ret
          /\ buffer' = r.copy.out
          /\ overrun' = (overrun \/ r.copy.overrun)
          /\ call' = [NoCall EXCEPT !.capacity = capacity]
    /\ op' = "get_identifier"
    /\ UNCHANGED <<threads, backend, wiimotes, heap, held, connected_wiimotes, pc,
                   enqueued, returned, found, snapshot, violation>>
    /\ UNCHANGED <<readVars, writeVars, socketVars, prev>>

IdNext ==
    \/ GetIdentifierLength
    \/ GetIdentifier

IdSpec == IdInit /\ [][IdNext]_vars

(***************************************************************************)
(* wiimotes_get_next called from two threads.  std::queue is not           *)
(* synchronised and the function takes no lock: each access to `wiimotes`  *)
(* (empty, front, pop) is one step of the calling thread.  front() and     *)
(* pop() on an empty queue are undefined: front() may yield any pointer    *)
(* the queue ever held, pop() may leave the queue empty or holding such a  *)
(* pointer.                                                                *)
(***************************************************************************)
\* The elements of a sequence.
Range(s) == { s[i] : i \in 1..Len(s) }

empty(q) == q = <<>>

front(q) == Head(q)

\* Mutant: the entry stays in the queue.
pop_keeps(q) == q

pop(q) == Tail(q)

\* The registry after a scan enqueued n Transports, before any is claimed.
ConcInit ==
    /\ IoIdle
    /\ backend \in Backends
    /\ \E n \in 0..MaxTransports :
          /\ heap = [p \in 1..n |-> [identifier |-> IF p = 1 THEN "A" ELSE "B",
                                      closed |-> 0]]
          /\ wiimotes = [p \in 1..n |-> p]
          /\ enqueued = [p \in 1..n |-> p]
          /\ found = n
          /\ ret = n
    /\ held = {}
    /\ connected_wiimotes = 0
    /\ pc = "idle"
    /\ op = "scan"
    /\ returned = <<>>
    /\ snapshot = NoSnapshot
    /\ violation = {}

\* Thread t takes a step while another thread is inside the function, or
\* enters it then: both calls ran concurrently.
Step(t, next_pc, wiimote) ==
    LET others == { u \in Threads \ {t} : threads[u].pc # "idle" }
    IN  threads' = [u \in Threads |->
                      IF u = t
                      THEN [pc |-> next_pc, wiimote |-> wiimote,
                            raced |-> threads[t].raced \/ others # {}]
                      ELSE [threads[u] EXCEPT !.raced = @ \/ (u \in others)]]

\* The calls that are past the emptiness test or have returned a Transport.
Claims == Len(returned) + Cardinality({ u \in Threads : threads[u].pc # "idle" })

\* if (wiimotes.empty()) return nullptr;
ThreadTestsEmpty(t) ==
    /\ threads[t].pc = "idle"
    /\ Claims < MaxCalls
    /\ IF empty(wiimotes)
       THEN /\ Step(t, "idle", NULL)
            /\ op' = "get_next"
            /\ ret' = NULL
       ELSE /\ Step(t, "tested", NULL)
            /\ UNCHANGED <<op, ret>>
    /\ UNCHANGED <<backend, wiimotes, heap, held, connected_wiimotes, pc, enqueued,
                   returned, found, snapshot, violation>>
    /\ UNCHANGED ioVars

\* Wiimote* wiimote = wiimotes.front();
ThreadReadsFront(t) ==
    /\ threads[t].pc = "tested"
    /\ \E p \in (IF empty(wiimotes) THEN Range(enqueued) ELSE {front(wiimotes)}) :
          Step(t, "fronted", p)
    /\ violation' = IF empty(wiimotes) THEN violation \cup {"front_on_empty"}
                    ELSE violation
    /\ UNCHANGED <<backend, wiimotes, heap, held, connected_wiimotes, pc, op, ret,
                   enqueued, returned, found, snapshot>>
    /\ UNCHANGED ioVars

\* wiimotes.pop(); return wiimote;
ThreadPopsAndReturns(t) ==
    /\ threads[t].pc = "fronted"
    /\ IF empty(wiimotes)
       THEN /\ wiimotes' \in {<<>>} \cup { <<p>> : p \in Range(enqueued) }
            /\ violation' = violation \cup {"pop_on_empty"}
       ELSE /\ wiimotes' = pop(wiimotes)
            /\ UNCHANGED violation
    /\ Step(t, "idle", NULL)
    /\ op' = "get_next"
    /\ ret' = threads[t].wiimote
    /\ returned' = Append(returned, threads[t].wiimote)
    /\ held' = held \cup {threads[t].wiimote}
    /\ UNCHANGED <<backend, heap, connected_wiimotes, pc, enqueued, found, snapshot>>
    /\ UNCHANGED ioVars

ConcNext ==
    \E t \in Threads :
        \/ ThreadTestsEmpty(t)
        \/ ThreadReadsFront(t)
        \/ ThreadPopsAndReturns(t)

ConcSpec == ConcInit /\ [][ConcNext]_vars

(***************************************************************************)
(* Scans observed: the registry machine's scans, with the history variable *)
(* call holding what the enumeration reported and the queue before the     *)
(* call; Transports stay in the queue.  A scan of an empty queue and the   *)
(* scans that follow it up to the first one that finds the queue filled    *)
(* are observed.                                                           *)
(***************************************************************************)
ScanObserved(r, enumeration, cands) ==
    /\ (op = "scan" => call.before = <<>>)
    /\ ScanReturns(r)
    /\ call' = [enumeration |-> enumeration, cands |-> cands, before |-> wiimotes]
    /\ UNCHANGED <<readVars, writeVars, socketVars, buffer, overrun, prev>>

ScanSocketObserved ==
    /\ pc = "idle"
    /\ backend = "socket"
    /\ \E enumeration \in {"no_adapter", "inquiry_failed", "ok"} :
       \E cands \in (IF enumeration = "ok"
                     THEN SocketEnumerations ELSE {<<>>}) :
       \E r \in {wiimotes_scan_socket([q |-> wiimotes, heap |-> heap],
                                      enumeration, cands)} :
          ScanObserved(r, enumeration, cands)
    /\ UNCHANGED connected_wiimotes

ScanHandleObserved ==
    /\ pc = "idle"
    /\ backend = "handle"
    /\ \E n \in 0..(MaxRegistered - connected_wiimotes) :
          connected_wiimotes' = connected_wiimotes + n
    /\ \E enumeration \in {"size_failed", "list_failed", "ok"} :
       \E cands \in (IF enumeration = "ok"
                     THEN HandleEnumerations ELSE {<<>>}) :
       \E r \in {wiimotes_scan_handle([q |-> wiimotes, heap |-> heap],
                                      enumeration, cands)} :
          ScanObserved(r, enumeration, cands)

ScanNext ==
    \/ ScanSocketObserved
    \/ ScanHandleObserved

ScanSpec == Init /\ [][ScanNext]_vars

\* The same scans while the caller holds a Transport it claimed earlier and
\* has not destroyed.
DedupSpec == IoInit /\ [][ScanNext]_vars

(***************************************************************************)
(* The descriptors of a scan on the socket backend.  A descriptor table    *)
(* holds the open socket descriptors of the process, the control and data  *)
(* socket of every Wiimote object (in heap order), the descriptor of the   *)
(* inquiry socket of the last scan, the number of sockets the last scan    *)
(* opened and the number of close calls it made, and whether a close was   *)
(* ever called on a descriptor that was not open.  socket() returns the    *)
(* lowest descriptor that is free, so a closed descriptor is used again.   *)
(***************************************************************************)
NoDescriptors ==
    [open |-> {}, sockets |-> <<>>, bt_socket |-> -1, opened |-> 0, closed |-> 0,
     bad_close |-> FALSE]

\* The descriptor socket() returns.
lowest_free(open) ==
    CHOOSE fd \in 0..Cardinality(open) :
        fd \notin open /\ \A g \in 0..(fd - 1) : g \in open

\* socket(AF_BLUETOOTH, ...) that succeeds.
os_socket(d) ==
    [d EXCEPT !.open = @ \cup {lowest_free(d.open)}, !.opened = @ + 1]

close(d, fd) ==
    [d EXCEPT !.open = @ \ {fd},
              !.closed = @ + 1,
              !.bad_close = @ \/ fd \notin d.open]

\* connect_socket with its descriptors: stage is where it fails ("socket",
\* "connect") or "ok".  fd < 0 stands for the empty optional.
connect_socket_fd(d, stage) ==
    IF stage = "socket" THEN [d |-> d, fd |-> -1]
    ELSE LET socket_fd == lowest_free(d.open)
             t == os_socket(d)
         IN  IF stage = "connect" THEN [d |-> close(t, socket_fd), fd |-> -1]
             ELSE [d |-> t, fd |-> socket_fd]

\* Where connect_socket ends for a channel of candidate c.
ControlStage(c) == IF c.control THEN "ok" ELSE c.control_stage

DataStage(c) == IF c.data THEN "ok" ELSE c.data_stage

\* Mutant: the control socket stays open when the data channel fails.
handle_wiimote_fd_keeps_control(d, c) ==
    LET control_socket == connect_socket_fd(d, ControlStage(c))
    IN  IF control_socket.fd < 0 THEN control_socket.d
        ELSE LET data_socket == connect_socket_fd(control_socket.d, DataStage(c))
             IN  IF data_socket.fd < 0 THEN data_socket.d
                 ELSE [data_socket.d EXCEPT !.sockets =
                          Append(@, [control_socket |-> control_socket.fd,
                                     data_socket |-> data_socket.fd])]

\* handle_wiimote with its descriptors; new Wiimote(...) takes both sockets.
handle_wiimote_fd(d, c) ==
    LET control_socket == connect_socket_fd(d, ControlStage(c))
    IN  IF control_socket.fd < 0 THEN control_socket.d
        ELSE LET data_socket == connect_socket_fd(control_socket.d, DataStage(c))
             IN  IF data_socket.fd < 0 THEN close(data_socket.d, control_socket.fd)
                 ELSE [data_socket.d EXCEPT !.sockets =
                          Append(@, [control_socket |-> control_socket.fd,
                                     data_socket |-> data_socket.fd])]

RECURSIVE inquiry_loop_fd(_, _)
inquiry_loop_fd(d, cands) ==
    IF cands = <<>> THEN d
    ELSE LET c == Head(cands)
             t == IF ~c.name_read THEN d
                  ELSE IF is_wiimote_device_name(c.name) THEN handle_wiimote_fd(d, c)
                  ELSE d
         IN  inquiry_loop_fd(t, Tail(cands))

\* hci_open_dev of libbluetooth: a negative device id is refused before any
\* socket is created; a socket that cannot be bound is closed by the library.
hci_open_dev(d, dev_id, opens) ==
    IF dev_id < 0 THEN [d |-> d, fd |-> -1]
    ELSE IF ~opens THEN [d |-> d, fd |-> -1]
    ELSE [d |-> os_socket(d), fd |-> lowest_free(d.open)]

\* The scope guard of wiimotes_scan runs when the function returns.
scope_guard(d, bt_socket) == close(d, bt_socket)

\* wiimotes_scan with its descriptors.  bt_device_id is the result of
\* hci_get_route, opens whether hci_open_dev gets its socket, inquiry whether
\* hci_inquiry succeeds.
wiimotes_scan_fd(d, bt_device_id, opens, inquiry, cands) ==
    LET start == [d EXCEPT !.opened = 0, !.closed = 0, !.bt_socket = -1]
        bt_socket == hci_open_dev(start, bt_device_id, opens)
        t == [bt_socket.d EXCEPT !.bt_socket = bt_socket.fd]
    IN  IF bt_device_id < 0 \/ bt_socket.fd < 0 THEN t
        ELSE IF ~inquiry THEN scope_guard(t, bt_socket.fd)
        ELSE scope_guard(inquiry_loop_fd(t, cands), bt_socket.fd)

\* One entry of the inquiry result with the stage at which a failing
\* connect_socket fails.  The stage of a channel that connects or is never
\* tried is fixed.
DescriptorCandidates ==
    { c \in [name_read : BOOLEAN, name : Names, control : BOOLEAN,
             data : BOOLEAN, id : Identifiers,
             control_stage : {"socket", "connect"},
             data_stage : {"socket", "connect"}] :
        LET accepted == c.name_read /\ is_wiimote_device_name(c.name)
        IN  /\ [name_read |-> c.name_read, name |-> c.name, control |-> c.control,
                data |-> c.data, id |-> c.id] \in SocketCandidates
            /\ (c.control => c.control_stage = "connect")
            /\ (c.data => c.data_stage = "connect") }

DescriptorEnumerations == SeqsUpTo(DescriptorCandidates, MaxCandidates)

ScanDescriptors ==
    /\ pc = "idle"
    /\ backend = "socket"
    /\ (op = "scan" => call.before = <<>>)
    /\ \E enumeration \in {"no_adapter", "inquiry_failed", "ok"} :
       \E bt_device_id \in (IF enumeration = "no_adapter" THEN {-1, 0} ELSE {0}) :
       \E cands \in (IF enumeration = "ok"
                     THEN DescriptorEnumerations ELSE {<<>>}) :
       \E r \in {wiimotes_scan_socket([q |-> wiimotes, heap |-> heap],
                                      enumeration, cands)} :
       \E d \in {wiimotes_scan_fd(IF op = "scan" THEN call.fds ELSE NoDescriptors,
                                  bt_device_id, enumeration # "no_adapter",
                                  enumeration # "inquiry_failed", cands)} :
          /\ ScanReturns(r)
          /\ call' = [enumeration |-> enumeration, cands |-> cands,
                      before |-> wiimotes, bt_device_id |-> bt_device_id,
                      fds |-> d]
    /\ UNCHANGED connected_wiimotes
    /\ UNCHANGED <<readVars, writeVars, socketVars, buffer, overrun, prev>>

DescriptorInit == Init /\ backend = "socket"

DescriptorSpec == DescriptorInit /\ [][ScanDescriptors]_vars

(***************************************************************************)
(* The identity filter applied to one candidate at a time.  The history    *)
(* variable call holds the arguments of the application.                   *)
(***************************************************************************)
\* uint16_t vendor ids: the accepted one, its neighbours, the extremes and
\* the accepted product ids.
FilterVendors ==
    {0, WIIMOTE_VENDOR_ID - 1, WIIMOTE_VENDOR_ID, WIIMOTE_VENDOR_ID + 1,
     WIIMOTE_PRODUCT_ID, WIIMOTE_PLUS_PRODUCT_ID, 65535}

\* uint16_t product ids: the accepted ones, their neighbours, 0x0301, the
\* extremes and the accepted vendor id.
FilterProducts ==
    {0, 769, WIIMOTE_PRODUCT_ID - 1, WIIMOTE_PRODUCT_ID, WIIMOTE_PRODUCT_ID + 1,
     WIIMOTE_PLUS_PRODUCT_ID - 1, WIIMOTE_PLUS_PRODUCT_ID,
     WIIMOTE_PLUS_PRODUCT_ID + 1, WIIMOTE_VENDOR_ID, 65535}

\* Device names: the accepted ones, case variants, prefixes, extensions,
\* substrings and unrelated names.
FilterNames ==
    {"Nintendo RVL-CNT-01", "Nintendo RVL-CNT-01-TR",
     "nintendo rvl-cnt-01", "NINTENDO RVL-CNT-01", "Nintendo RVL-CNT-01-tr",
     "Nintendo RVL-CNT-0", "Nintendo RVL-CNT-01-T", "Nintendo RVL-CNT-01-TR2",
     "Nintendo RVL-CNT-01 ", " Nintendo RVL-CNT-01", "RVL-CNT-01",
     "Nintendo RVL-WBC-01", ""}

FilterInit == Init

ApplyIsWiimote ==
    /\ \E vendor_id \in FilterVendors : \E product_id \in FilterProducts :
          /\ ret' = is_wiimote(vendor_id, product_id)
          /\ call' = [vendor_id |-> vendor_id, product_id |-> product_id]
    /\ op' = "is_wiimote"
    /\ UNCHANGED <<threads, backend, wiimotes, heap, held, connected_wiimotes, pc,
                   enqueued, returned, found, snapshot, violation>>
    /\ UNCHANGED <<readVars, writeVars, socketVars, buffer, overrun, prev>>

ApplyIsWiimoteDeviceName ==
    /\ \E name \in FilterNames :
          /\ ret' = is_wiimote_device_name(name)
          /\ call' = [name |-> name]
    /\ op' = "is_wiimote_device_name"
    /\ UNCHANGED <<threads, backend, wiimotes, heap, held, connected_wiimotes, pc,
                   enqueued, returned, found, snapshot, violation>>
    /\ UNCHANGED <<readVars, writeVars, socketVars, buffer, overrun, prev>>

FilterNext ==
    \/ ApplyIsWiimote
    \/ ApplyIsWiimoteDeviceName

FilterSpec == FilterInit /\ [][FilterNext]_vars

(***************************************************************************)
(* Properties of a Transport.                                              *)
(***************************************************************************)
\* Reads started by ReadFile whose completion the program has not fetched.
Outstanding ==
    reads_in_flight
      + (IF read_completion.status # "none" /\ ~read_completion.fetched THEN 1 ELSE 0)

\* C6: on the handle backend at most one asynchronous read is outstanding,
\* and m_read_pending says whether one is; a read call made while
\* m_read_pending is true issues no ReadFile; two consecutive read_timeout
\* calls that both time out issue one read in total (none if a read was
\* already pending before the first).
C6_OneOutstandingRead ==
    /\ Outstanding <= 1
    /\ m_read_pending = (Outstanding = 1)
    /\ (call.was_pending => call.issued = 0)
    /\ (/\ op = "read_timeout" /\ call.timed_out
        /\ prev.op = "read_timeout" /\ prev.timed_out) =>
            call.issued + prev.issued = (IF prev.was_pending THEN 0 ELSE 1)

\* Two consecutive read_timeout calls timed out, the first one on an idle
\* Transport: one ReadFile was issued by the two.
C6_Witness ==
    /\ op = "read_timeout" /\ call.timed_out
    /\ prev.op = "read_timeout" /\ prev.timed_out /\ ~prev.was_pending
    /\ call.issued + prev.issued = 1
    /\ Outstanding = 1

\* C7: a read_timeout call that times out (a poll with timeout 0 included)
\* returns 0 and leaves the read in flight and m_read_pending true;
\* m_read_pending only becomes false in a call that fetched the completion.
C7_TimeoutKeepsPending ==
    /\ [](call.timed_out =>
             /\ ret = 0
             /\ call.has_timeout
             /\ ~call.fetched
             /\ m_read_pending
             /\ Outstanding = 1
             /\ (~call.since => reads_in_flight = 1 /\ ~read_event))
    /\ [][(m_read_pending /\ ~m_read_pending') =>
             (call'.fetched /\ ~call'.since /\ op' \in {"read", "read_timeout"})]_vars

\* A poll (timeout 0) found the read left pending by an earlier timed-out call
\* still not completed.
C7_Witness ==
    /\ op = "read_timeout" /\ call.timed_out /\ call.timeout = 0
    /\ call.was_pending /\ prev.timed_out
    /\ m_read_pending /\ ret = 0

\* C8: no read in flight is lost or duplicated: the reports returned to the
\* caller are, in order and without repetition, the reports the device
\* completed, except the one whose completion is still to be fetched; a call
\* that returns a report returns its leading bytes; and every completed report
\* is eventually returned while the caller keeps calling.
C8_NoReadLostOrDuplicated ==
    /\ [](/\ completed = delivered
                \o (IF read_completion.status = "ok" /\ ~read_completion.fetched
                    THEN <<completed[Len(completed)]>> ELSE <<>>)
          /\ NoDuplicates(delivered)
          /\ (call.report # 0 =>
                /\ ret >= 0
                /\ \A i \in 1..ret : buffer[i] = call.report))
    /\ \A k \in 1..MaxReports :
          (k \in Range(completed)) ~> (k \in Range(delivered))

\* A report that completed while two read_timeout calls timed out was
\* returned by a later call.
C8_Witness ==
    /\ Len(delivered) = 2
    /\ call.report = 2
    /\ call.was_pending
    /\ prev.op = "read_timeout" /\ prev.timed_out
    /\ ret > 0

\* C9: read and read_timeout never return more than the caller's capacity
\* and never write outside the caller's buffer: exactly the first ret bytes
\* are written when ret is positive, none otherwise; on the handle backend a
\* successful call returns min(bytes_read, capacity).
C9_CapacityRespected ==
    /\ ~overrun
    /\ op \in {"read", "read_timeout"} =>
          /\ ret <= call.capacity
          /\ Len(buffer) = call.capacity
          /\ \A i \in 1..Len(buffer) : (buffer[i] # UNWRITTEN) = (i <= ret)
          /\ (backend = "handle" /\ call.report # 0 =>
                ret = Min(call.bytes_read, call.capacity))

\* A report longer than the caller's buffer was cut to the capacity.
C9_Witness ==
    /\ backend = "handle"
    /\ op = "read_timeout"
    /\ call.report # 0
    /\ call.bytes_read > call.capacity
    /\ call.capacity > 0
    /\ ret = call.capacity

\* C10: read, read_timeout and write return a byte count >= 0 or -1, and
\* every failure of the operating system is reported as -1.
C10_ReturnContract ==
    op \in {"read", "read_timeout", "write"} =>
        /\ ret >= -1
        /\ (call.os_error => ret = -1)

\* C11: a successful write on the socket backend sends one frame, the output
\* marker followed by the first min(length, DEFAULT_BUFFER_SIZE - 1) bytes of
\* the caller's buffer, and returns that number of payload bytes.
C11_SocketWriteFrame ==
    (backend = "socket" /\ op = "write" /\ ~call.os_error) =>
        LET n == Min(call.capacity, DEFAULT_BUFFER_SIZE - 1)
        IN  /\ wire = <<OUTPUT_PREFIX>> \o [i \in 1..n |-> i]
            /\ ret = n

\* A buffer longer than a frame's payload was written: the frame is full and
\* the count is the payload's.
C11_Witness ==
    /\ backend = "socket" /\ op = "write" /\ ~call.os_error
    /\ call.capacity > DEFAULT_BUFFER_SIZE - 1
    /\ Len(wire) = DEFAULT_BUFFER_SIZE
    /\ ret = DEFAULT_BUFFER_SIZE - 1

\* C12: a payload of N <= DEFAULT_BUFFER_SIZE - 1 bytes written, sent back by
\* a loopback peer behind the input marker and read into a buffer of capacity
\* at least N comes back whole: read returns N and the buffer starts with
\* the N bytes written.
C12_RoundTrip ==
    (/\ backend = "socket" /\ op = "read" /\ call.looped
     /\ call.written <= DEFAULT_BUFFER_SIZE - 1
     /\ call.capacity >= call.written) =>
        /\ ret = call.written
        /\ \A i \in 1..call.written : buffer[i] = i

\* C13: every report handed to WriteFile has the output-report length, starts
\* with the first min(length, OutputReportLen) bytes of the caller's buffer
\* and is zero after them, whatever earlier writes left in the scratch
\* buffer; a write that succeeds returns the count of the whole report.
C13_FullZeroPaddedReport ==
    /\ \A k \in 1..Len(submitted) :
          LET n == Min(submitted[k].data_size, OutputReportLen)
          IN  /\ Len(submitted[k].report) = OutputReportLen
              /\ \A i \in 1..OutputReportLen :
                    submitted[k].report[i] = IF i <= n THEN i ELSE 0
    /\ (backend = "handle" /\ op = "write" /\ ~call.os_error) =>
          ret = OutputReportLen

\* A full report was written, then a shorter one: the second report ends in
\* zeros and its call returned the full count.
C13_Witness ==
    /\ Len(submitted) = 2
    /\ submitted[1].data_size >= OutputReportLen
    /\ submitted[2].data_size < OutputReportLen
    /\ submitted[2].report[OutputReportLen] = 0
    /\ op = "write" /\ ~call.os_error /\ call.capacity = submitted[2].data_size
    /\ ret = OutputReportLen

\* C14: wiimote_get_identifier_length returns the identifier's length plus
\* one; wiimote_get_identifier returns true exactly when the capacity is at
\* least that, and then the buffer holds the identifier followed by a zero
\* byte; otherwise it returns false and the buffer is as the caller passed it.
C14_Identifier ==
    LET id == heap[1].identifier
        L == Len(id)
    IN  /\ ~overrun
        /\ (op = "get_identifier_length" => ret = L + 1)
        /\ (op = "get_identifier" =>
              /\ ret = (call.capacity >= L + 1)
              /\ Len(buffer) = call.capacity
              /\ (ret => /\ \A i \in 1..L : buffer[i] = id[i]
                         /\ buffer[L + 1] = 0
                         /\ \A i \in (L + 2)..call.capacity : buffer[i] = UNWRITTEN)
              /\ (~ret => \A i \in 1..call.capacity : buffer[i] = UNWRITTEN))

\* A buffer one byte too small (capacity equal to the identifier's length,
\* which is positive) was refused and left as it was.
C14_Witness ==
    /\ op = "get_identifier"
    /\ Len(heap[1].identifier) > 0
    /\ call.capacity = Len(heap[1].identifier)
    /\ ret = FALSE
    /\ \A i \in 1..call.capacity : buffer[i] = UNWRITTEN

\* C15: is_wiimote accepts exactly vendor 0x057E with product 0x0306 or
\* 0x0330, and is_wiimote_device_name exactly the names "Nintendo RVL-CNT-01"
\* and "Nintendo RVL-CNT-01-TR".
C15_AcceptList ==
    /\ (op = "is_wiimote" =>
          ret = (<<call.vendor_id, call.product_id>> \in {<<1406, 774>>, <<1406, 816>>}))
    /\ (op = "is_wiimote_device_name" =>
          ret = (call.name \in {"Nintendo RVL-CNT-01", "Nintendo RVL-CNT-01-TR"}))

\* An accepted product id under another vendor was rejected.
C15_Witness ==
    /\ op = "is_wiimote"
    /\ call.vendor_id # 1406
    /\ call.product_id = 816
    /\ ret = FALSE

\* C16: on the handle backend no asynchronous read or write is in flight
\* when a Transport has been destroyed.
C16_NothingInFlightAtDestroy ==
    \A p \in DOMAIN heap :
        (backend = "handle" /\ heap[p].closed > 0) =>
            (reads_in_flight = 0 /\ writes_in_flight = 0)

\* A candidate passes the identity filter and all its connection steps.
Connects(c) ==
    IF backend = "socket"
    THEN /\ c.name_read
         /\ c.name \in {"Nintendo RVL-CNT-01", "Nintendo RVL-CNT-01-TR"}
         /\ c.control /\ c.data
    ELSE /\ c.info
         /\ c.vendor_id = 1406 /\ c.product_id \in {774, 816}
         /\ c.open

\* The identifiers of the Transports in a queue.
QueueIdentifiers(q) == [i \in 1..Len(q) |-> heap[q[i]].identifier]

\* The identifiers of the candidates of an enumeration that connect, in
\* enumeration order.
RECURSIVE Connecting(_)
Connecting(cands) ==
    IF cands = <<>> THEN <<>>
    ELSE (IF Connects(Head(cands)) THEN <<Head(cands).id>> ELSE <<>>)
            \o Connecting(Tail(cands))

\* C17: a scan whose enumeration succeeds appends to the queue one Transport
\* for each candidate that passes the filter and connects, in enumeration
\* order, whatever happens to the candidates before and after it, and nothing
\* else; the queue it found is kept.
C17_PerCandidateFailures ==
    (op = "scan" /\ call.enumeration = "ok") =>
        /\ Len(wiimotes) = Len(call.before) + Len(Connecting(call.cands))
        /\ SubSeq(wiimotes, 1, Len(call.before)) = call.before
        /\ QueueIdentifiers(Drop(wiimotes, Len(call.before))) = Connecting(call.cands)
        /\ NoDuplicates(wiimotes)

\* The first candidate of an enumeration failed and the second one was
\* enqueued.
C17_Witness ==
    /\ op = "scan" /\ call.enumeration = "ok"
    /\ Len(call.cands) = 2
    /\ ~Connects(call.cands[1])
    /\ Connects(call.cands[2])
    /\ Len(wiimotes) = Len(call.before) + 1
    /\ heap[wiimotes[Len(wiimotes)]].identifier = call.cands[2].id

\* C18: a scan whose enumeration fails (no adapter, failed inquiry, failed
\* device list) leaves the queue and its Transports as they were and returns
\* the length of the queue.
C18_EnumerationFailure ==
    (op = "scan" /\ call.enumeration # "ok") =>
        /\ wiimotes = call.before
        /\ ret = Len(call.before)
        /\ found = 0

\* An enumeration failed with Transports in the queue: they are still there
\* and counted.
C18_Witness ==
    /\ op = "scan" /\ call.enumeration # "ok"
    /\ call.before # <<>>
    /\ wiimotes = call.before
    /\ ret = Len(wiimotes)

\* C19: at every return from write on the handle backend m_write_pending is
\* false, and no write call stays blocked in its wait for the previous write
\* (every write in flight is completed by the device).
C19_WritePendingCleared ==
    /\ (backend = "handle" /\ op = "write") => ~m_write_pending
    /\ ~blocked

\* C20: on the socket backend read writes payload bytes to the caller's
\* buffer, or returns a positive count, only for a frame that starts with the
\* input marker; a frame that starts with another byte fails the assertion
\* and nothing is returned or written; a result of ::read that is not
\* positive is returned as it is, the buffer untouched.  read_timeout reads
\* through read and is held to the same.
C20_MarkerVerified ==
    (backend = "socket" /\ op \in {"read", "read_timeout"}) =>
        /\ (ret > 0 \/ \E i \in 1..Len(buffer) : buffer[i] # UNWRITTEN) =>
              (call.marker = INPUT_PREFIX /\ ~aborted)
        /\ (call.bytes_read > 0 /\ call.marker # INPUT_PREFIX) =>
              (aborted /\ \A i \in 1..Len(buffer) : buffer[i] = UNWRITTEN)
        /\ (call.bytes_read > 0 /\ call.marker = INPUT_PREFIX) =>
              (~aborted /\ ret = call.bytes_read - 1)
        /\ (op = "read" /\ call.bytes_read <= 0) =>
              /\ ret = call.bytes_read
              /\ call.marker = 0
              /\ ~aborted
              /\ \A i \in 1..Len(buffer) : buffer[i] = UNWRITTEN

\* A frame behind the output marker was received: the assertion failed and
\* the caller's buffer was not written.
C20_Witness ==
    /\ backend = "socket" /\ op = "read"
    /\ call.bytes_read > 1
    /\ call.marker = OUTPUT_PREFIX
    /\ aborted
    /\ \A i \in 1..Len(buffer) : buffer[i] = UNWRITTEN

\* C21: nothing excludes two threads from the registry queue.  As long as no
\* call of wiimotes_get_next ran while another thread was inside the function
\* (strictly sequential calls), the Transports returned are the queue's first
\* entries in their order, none is returned twice, and front and pop never
\* run on an empty queue.  Calls that overlap are not held to this: the
\* witness is the interleaving where both callers got the same Transport.
C21_SequentialNeverTwice ==
    (\A t \in Threads : ~threads[t].raced) =>
        /\ NoDuplicates(returned)
        /\ violation = {}
        /\ Len(returned) <= Len(enqueued)
        /\ \A i \in 1..Len(returned) : returned[i] = enqueued[i]
        /\ \A p \in Range(returned) : ~InQueue(p)

\* Two overlapping calls on a non-empty queue both returned the same
\* Transport.
C21_Witness ==
    /\ \A t \in Threads : threads[t].raced /\ threads[t].pc = "idle"
    /\ Len(returned) = 2
    /\ returned[1] = returned[2]
    /\ returned[1] # NULL

\* The Transports of a set that carry an identifier.
WithIdentifier(ps, identifier) == { p \in ps : heap[p].identifier = identifier }

\* How often x occurs in sequence s.
Occurrences(s, x) == Cardinality({ i \in 1..Len(s) : s[i] = x })

\* C22: a scan does not deduplicate by identifier.  After a scan whose
\* enumeration succeeds, for every identifier the queued and claimed
\* Transports that carry it are those from before the scan plus one new
\* Transport for each candidate with that identifier that passed the filter
\* and connected, whether or not a Transport with the identifier was already
\* queued or claimed and open.
C22_NoDeduplication ==
    (op = "scan" /\ call.enumeration = "ok") =>
        \A identifier \in Identifiers :
            /\ Cardinality(WithIdentifier(Range(wiimotes) \cup held, identifier))
                  = Cardinality(WithIdentifier(Range(call.before) \cup held, identifier))
                      + Occurrences(Connecting(call.cands), identifier)
            /\ Cardinality(WithIdentifier(Range(wiimotes), identifier))
                  = Occurrences(QueueIdentifiers(wiimotes), identifier)
            /\ \A p \in WithIdentifier(Range(wiimotes) \cup held, identifier) :
                  heap[p].closed = 0

\* Two scans saw and connected the device of a Transport the caller holds
\* open: three distinct open Transports carry its identifier.
C22_Witness ==
    /\ op = "scan" /\ call.enumeration = "ok"
    /\ held = {1}
    /\ heap[1].identifier = "A" /\ heap[1].closed = 0
    /\ WithIdentifier(Range(call.before), "A") # {}
    /\ Occurrences(Connecting(call.cands), "A") = 1
    /\ Cardinality(WithIdentifier(Range(wiimotes) \cup held, "A")) = 3

\* The descriptors the Wiimote objects of a table own.
Owned(d) ==
    UNION { {d.sockets[p].control_socket, d.sockets[p].data_socket} :
              p \in 1..Len(d.sockets) }

\* C23: when a scan on the socket backend returns, on any path, the open
\* socket descriptors are those of the queued Transports: each queued
\* Transport has an open control and an open data socket that no other
\* Transport has, every other socket the scan opened is closed again (a
\* failed connect closes its socket, a failed data channel closes the
\* connected control socket, the inquiry socket is closed once it was opened),
\* and no descriptor is closed twice.
C23_SocketsClosedOrOwned ==
    (backend = "socket" /\ op = "scan") =>
        LET d == call.fds
        IN  /\ d.open = Owned(d)
            /\ ~d.bad_close
            /\ Len(d.sockets) = Len(heap)
            /\ \A p \in 1..Len(d.sockets) :
                  /\ InQueue(p)
                  /\ d.sockets[p].control_socket # d.sockets[p].data_socket
                  /\ \A q \in 1..Len(d.sockets) :
                        p # q => {d.sockets[p].control_socket, d.sockets[p].data_socket}
                                   \cap {d.sockets[q].control_socket,
                                         d.sockets[q].data_socket} = {}
            /\ d.opened = d.closed + 2 * (Len(wiimotes) - Len(call.before))
            /\ d.bt_socket \notin d.open
            /\ (call.enumeration # "no_adapter" <=> d.bt_socket >= 0)

\* A scan opened the inquiry socket, connected the control channel of its
\* first candidate but not its data channel, and connected its second
\* candidate: five sockets opened, three closed, two owned by the new
\* Transport.
C23_Witness ==
    /\ backend = "socket" /\ op = "scan" /\ call.enumeration = "ok"
    /\ Len(call.cands) = 2
    /\ call.cands[1].name_read /\ is_wiimote_device_name(call.cands[1].name)
    /\ call.cands[1].control /\ ~call.cands[1].data
    /\ call.cands[1].data_stage = "connect"
    /\ Connects(call.cands[2])
    /\ call.fds.opened = 5 /\ call.fds.closed = 3
    /\ Len(wiimotes) = Len(call.before) + 1
    /\ Cardinality(call.fds.open) = 2 * Len(wiimotes)

====
